---- MODULE Spec2Model ----
(***************************************************************************)
(* A model of coriolinus/solitaire: Schneier's Solitaire cipher.           *)
(*                                                                         *)
(* A deck is the array `Deck.0` of src/src/deck.rs, written as a sequence  *)
(* of DECK_SIZE card values; the code's 0-based index i is position i + 1  *)
(* of the sequence (At reads by the code's index).  A text is a sequence   *)
(* of character codes.  A failing path of the code (unreachable!, a slice  *)
(* out of range, an arithmetic overflow in a debug build) makes the        *)
(* operator yield Panic.                                                   *)
(***************************************************************************)
EXTENDS Integers, Sequences, FiniteSets, TLC

VARIABLES
    deck,     \* Keystream.0 / the Deck the operations mutate
    origin,   \* how the deck was constructed: "new", "passphrase" or "parsed"
    key,      \* the passphrase of Deck::from_passphrase (<<>> when parsed)
    pc,       \* position in Keystream::next: "idle" (outside), "loop" (inside)
    output,   \* the local `output` of Keystream::next
    stream,   \* the values Keystream::next has returned so far
    taps,     \* repetitions of the loop body in the current or last call
    prev,     \* the deck before the last call of a Deck or Keystream method
    last,     \* the last Deck operation and its arguments
    ops,      \* number of Deck operations called from outside the keystream
    text,     \* the message handed to encrypt
    cipher,   \* what encrypt returned
    plain,    \* what decrypt returned for `cipher`
    phase,    \* position of the encrypt/decrypt round trip
    bytes,    \* what textbyte(text) yielded
    pstream,  \* what pad yielded for `bytes`
    arg,      \* the argument of a parsing or conversion call
    result    \* what that call returned

vars == <<deck, origin, key, pc, output, stream, taps, prev, last, ops,
          text, cipher, plain, phase, bytes, pstream, arg, result>>

(***************************************************************************)
(* Bounds of the model.                                                    *)
(***************************************************************************)
\* values taken from one keystream
MaxOut == 17
\* cap of the history counter `taps`
MaxTaps == 8
\* multipliers m of the parsed decks i |-> (i * m) mod (DECK_SIZE + 1)
MaxMul == 6
\* Deck operations called in a row on one deck
MaxOps == 2
\* characters of a generated message
MaxMsgLen == 5
\* characters of a generated text
MaxTextLen == 3
\* the random number generators of shuffle are numbered 0..MaxSeed
MaxSeed == 3
\* most values handed to MaybeDeck::from_iter
MaxCards == 56
\* most characters in the rank portion of a card token
MaxRankLen == 2

(***************************************************************************)
(* Cards (src/src/card.rs).                                                *)
(***************************************************************************)
SUIT_SIZE == 13

\* `Suit::Joker as u8`: the fifth variant of the enum
SuitJoker == 4

\* From<Card> for u8
CardToU8(suit, rank) == suit * SUIT_SIZE + rank

JOKER_A == CardToU8(SuitJoker, 1)

JOKER_B == CardToU8(SuitJoker, 2)

(***************************************************************************)
(* The deck and its primitives (src/src/deck.rs).                          *)
(***************************************************************************)
DECK_SIZE == 54

\* Option::None, for Option<u8> (no u8 is negative)
None == -1

\* a failed operation: the deck code panicked
Panic == <<>>

\* self.0[i], by the code's 0-based index
At(d, i) == d[i + 1]

Min(S) == CHOOSE x \in S : \A y \in S : x <= y

\* mutant of is_joker: only Joker B counts as a joker
is_joker_only_b(v) == v = DECK_SIZE

is_joker(v) == v = DECK_SIZE \/ v = DECK_SIZE - 1

\* Deck::new
NewDeck == [i \in 1..DECK_SIZE |-> i]

\* Deck::find: the first index holding the card; unreachable!() otherwise
find(d, card) ==
    IF \E i \in 0..(Len(d) - 1) : At(d, i) = card
    THEN Min({i \in 0..(Len(d) - 1) : At(d, i) = card})
    ELSE None

\* the slice d[a..b] of the code: indices a (included) to b (excluded)
Slice(d, a, b) == SubSeq(d, a + 1, b)

\* mutant of push: the wrap goes around all DECK_SIZE positions, the bottom
\* included
push_wrap_all(d, card, n0) ==
    LET n   == n0 % DECK_SIZE
        idx == Min({i \in 0..(Len(d) - 1) : At(d, i) = card})
    IN  IF idx + n >= DECK_SIZE
        THEN LET dest_idx == (idx + n) % DECK_SIZE
             IN  Slice(d, 0, dest_idx) \o <<At(d, idx)>>
                 \o Slice(d, dest_idx, idx) \o Slice(d, idx + 1, DECK_SIZE)
        ELSE Slice(d, 0, idx) \o Slice(d, idx + 1, idx + n + 1)
             \o <<At(d, idx)>> \o Slice(d, idx + n + 1, DECK_SIZE)

\* mutant of push: no wrap, the cards are copied as if the destination were
\* always inside the deck
push_no_wrap(d, card, n0) ==
    LET n   == n0 % DECK_SIZE
        idx == Min({i \in 0..(Len(d) - 1) : At(d, i) = card})
    IN  IF d = Panic \/ idx + n >= DECK_SIZE THEN Panic   \* slice out of range
        ELSE Slice(d, 0, idx) \o Slice(d, idx + 1, idx + n + 1)
             \o <<At(d, idx)>> \o Slice(d, idx + n + 1, DECK_SIZE)

\* mutant of push: the wrap counts its destination from the top card, so the
\* bottom card pushed by one lands on top
push_wrap_to_top(d, card, n0) ==
    LET n   == n0 % DECK_SIZE
        idx == Min({i \in 0..(Len(d) - 1) : At(d, i) = card})
    IN  IF idx + n >= DECK_SIZE
        THEN LET dest_idx == ((idx + n) % (DECK_SIZE - 1)) - 1
             IN  Slice(d, 0, dest_idx) \o <<At(d, idx)>>
                 \o Slice(d, dest_idx, idx) \o Slice(d, idx + 1, DECK_SIZE)
        ELSE Slice(d, 0, idx) \o Slice(d, idx + 1, idx + n + 1)
             \o <<At(d, idx)>> \o Slice(d, idx + n + 1, DECK_SIZE)

\* Deck::push
push(d, card, n0) ==
    IF d = Panic \/ find(d, card) = None THEN Panic
    ELSE
    LET n   == n0 % DECK_SIZE
        idx == find(d, card)
    IN  IF idx + n >= DECK_SIZE
        THEN \* wrap: next[dest_idx] = self.0[idx];
             \*       next[dest_idx + 1..=idx] <- self.0[dest_idx..idx]
             LET dest_idx == (idx + n) % (DECK_SIZE - 1)
             IN  IF dest_idx > idx THEN Panic   \* slice start past its end
                 ELSE Slice(d, 0, dest_idx) \o <<At(d, idx)>>
                      \o Slice(d, dest_idx, idx) \o Slice(d, idx + 1, DECK_SIZE)
        ELSE \* no wrap: next[idx..idx + n] <- self.0[idx + 1..idx + n + 1];
             \*          next[idx + n] = self.0[idx]
             Slice(d, 0, idx) \o Slice(d, idx + 1, idx + n + 1)
             \o <<At(d, idx)>> \o Slice(d, idx + n + 1, DECK_SIZE)

\* mutant of triple_cut: the lower anchor is cut off with the bottom range
\* instead of staying in the centre
triple_cut_anchor_moves(d, card0, card1) ==
    LET f0   == Min({i \in 0..(Len(d) - 1) : At(d, i) = card0})
        f1   == Min({i \in 0..(Len(d) - 1) : At(d, i) = card1})
        idx0 == IF f0 > f1 THEN f1 ELSE f0
        idx1 == IF f0 > f1 THEN f0 ELSE f1
    IN  Slice(d, idx1, DECK_SIZE) \o Slice(d, idx0, idx1) \o Slice(d, 0, idx0)

\* mutant of triple_cut: the two indices are not put in order, so the slice
\* self.0[idx0..=idx1] starts past its end when card0 lies below card1
triple_cut_no_swap(d, card0, card1) ==
    LET idx0 == Min({i \in 0..(Len(d) - 1) : At(d, i) = card0})
        idx1 == Min({i \in 0..(Len(d) - 1) : At(d, i) = card1})
    IN  IF d = Panic \/ idx0 > idx1 THEN Panic
        ELSE Slice(d, idx1 + 1, DECK_SIZE) \o Slice(d, idx0, idx1 + 1)
             \o Slice(d, 0, idx0)

\* mutant of triple_cut: the upper anchor is cut off with the top range
\* instead of staying in the centre
triple_cut_upper_anchor_moves(d, card0, card1) ==
    LET f0   == Min({i \in 0..(Len(d) - 1) : At(d, i) = card0})
        f1   == Min({i \in 0..(Len(d) - 1) : At(d, i) = card1})
        idx0 == IF f0 > f1 THEN f1 ELSE f0
        idx1 == IF f0 > f1 THEN f0 ELSE f1
    IN  IF idx0 = idx1 THEN d
        ELSE Slice(d, idx1 + 1, DECK_SIZE) \o Slice(d, idx0 + 1, idx1 + 1)
             \o Slice(d, 0, idx0 + 1)

\* mutant of triple_cut: when the indices are found in descending order the
\* first takes the second's value and the second keeps its own
triple_cut_half_swap(d, card0, card1) ==
    LET f0   == Min({i \in 0..(Len(d) - 1) : At(d, i) = card0})
        f1   == Min({i \in 0..(Len(d) - 1) : At(d, i) = card1})
        idx0 == IF f0 > f1 THEN f1 ELSE f0
        idx1 == f1
    IN  Slice(d, idx1 + 1, DECK_SIZE) \o Slice(d, idx0, idx1 + 1)
        \o Slice(d, 0, idx0)

\* Deck::triple_cut
triple_cut(d, card0, card1) ==
    IF d = Panic \/ find(d, card0) = None \/ find(d, card1) = None THEN Panic
    ELSE
    LET f0   == find(d, card0)
        f1   == find(d, card1)
        idx0 == IF f0 > f1 THEN f1 ELSE f0
        idx1 == IF f0 > f1 THEN f0 ELSE f1
        new_idx0 == DECK_SIZE - idx1 - 1
        new_idx1 == DECK_SIZE - idx0 - 1
    IN  IF idx1 - idx0 # new_idx1 - new_idx0 THEN Panic   \* debug_assert_eq!
        ELSE \* next[..new_idx0] <- self.0[idx1 + 1..];
             \* next[new_idx0..=new_idx1] <- self.0[idx0..=idx1];
             \* next[new_idx1 + 1..] <- self.0[..idx0]
             Slice(d, idx1 + 1, DECK_SIZE) \o Slice(d, idx0, idx1 + 1)
             \o Slice(d, 0, idx0)

\* mutant of count_cut: the bottom card is not copied, its place keeps the 0
\* the new array was filled with
count_cut_bottom_lost(d, override_idx) ==
    LET bottom == At(d, DECK_SIZE - 1)
        idx == IF override_idx # None THEN override_idx
               ELSE IF bottom = DECK_SIZE THEN bottom - 1 ELSE bottom
    IN  IF d = Panic \/ DECK_SIZE - idx - 1 < 0 THEN Panic
        ELSE Slice(d, idx, DECK_SIZE - 1) \o Slice(d, 0, idx) \o <<0>>

\* mutant of count_cut: Joker B at the bottom counts as 54, not as 53
count_cut_no_joker_rule(d, override_idx) ==
    LET idx == IF override_idx # None THEN override_idx ELSE At(d, DECK_SIZE - 1)
    IN  IF d = Panic \/ DECK_SIZE - idx - 1 < 0 THEN Panic
        ELSE Slice(d, idx, DECK_SIZE - 1) \o Slice(d, 0, idx)
             \o <<At(d, DECK_SIZE - 1)>>

\* mutant of count_cut: the cut runs over the whole deck, the bottom card
\* included
count_cut_whole_deck(d, override_idx) ==
    LET bottom == At(d, DECK_SIZE - 1)
        idx == IF override_idx # None THEN override_idx
               ELSE IF bottom = DECK_SIZE THEN bottom - 1 ELSE bottom
    IN  IF d = Panic \/ DECK_SIZE - idx - 1 < 0 THEN Panic
        ELSE Slice(d, idx, DECK_SIZE) \o Slice(d, 0, idx)

\* Deck::count_cut
count_cut(d, override_idx) ==
    IF d = Panic THEN Panic
    ELSE
    LET bottom == At(d, DECK_SIZE - 1)
        idx == IF override_idx # None THEN override_idx
               ELSE IF bottom = DECK_SIZE THEN bottom - 1 ELSE bottom
    IN  IF DECK_SIZE - idx - 1 < 0 THEN Panic   \* usize underflow, slice range
        ELSE \* next[..range_b_len] <- self.0[idx..DECK_SIZE - 1];
             \* next[range_b_len..DECK_SIZE - 1] <- self.0[..idx];
             \* next[DECK_SIZE - 1] = self.0[DECK_SIZE - 1]
             Slice(d, idx, DECK_SIZE - 1) \o Slice(d, 0, idx)
             \o <<At(d, DECK_SIZE - 1)>>

\* mutant of deck_output: the tap counts the top card as card 1 and reads
\* the last card counted, not the one after it
deck_output_off_by_one(d) ==
    LET top  == At(d, 0)
        idx  == IF top = DECK_SIZE THEN top - 1 ELSE top
        card == At(d, idx - 1)
    IN  IF card = DECK_SIZE \/ card = DECK_SIZE - 1 THEN None ELSE card

\* mutant of deck_output: a tapped Joker A is returned as a card
deck_output_joker_a_passes(d) ==
    LET top  == At(d, 0)
        idx  == IF top = DECK_SIZE THEN top - 1 ELSE top
        card == At(d, idx)
    IN  IF card = DECK_SIZE THEN None ELSE card

\* Deck::output
deck_output(d) ==
    LET top  == At(d, 0)
        idx  == IF top = DECK_SIZE THEN top - 1 ELSE top
        card == At(d, idx)
    IN  IF is_joker(card) THEN None ELSE card

(***************************************************************************)
(* Text to numbers (src/src/textbyte.rs).  A text is a sequence of         *)
(* character codes (Unicode scalar values).                                *)
(***************************************************************************)
\* char::is_ascii_alphabetic: 'A'..='Z' | 'a'..='z'
is_ascii_alphabetic(c) == (c >= 65 /\ c <= 90) \/ (c >= 97 /\ c <= 122)

\* mutant of to_ascii_uppercase: the case is not folded
to_ascii_uppercase_kept(c) == c

\* char::to_ascii_uppercase
to_ascii_uppercase(c) == IF c >= 97 /\ c <= 122 THEN c - 32 ELSE c

\* textbyte: the letters of the text, A = 1 .. Z = 26
RECURSIVE textbyte(_)
textbyte(t) ==
    IF t = <<>> THEN <<>>
    ELSE IF is_ascii_alphabetic(Head(t))
         THEN <<to_ascii_uppercase(Head(t)) - 65 + 1>> \o textbyte(Tail(t))
         ELSE textbyte(Tail(t))

(***************************************************************************)
(* Constructing a deck (src/src/deck.rs).                                  *)
(***************************************************************************)
\* mutant of key_step: the count-cut by the letter is left out
key_step_no_letter(d, ch) ==
    CHOOSE d4 \in
        {count_cut(d3, None) :
            d3 \in {triple_cut(d2, JOKER_A, JOKER_B) :
                d2 \in {push(d1, JOKER_B, 2) :
                    d1 \in {push(d, JOKER_A, 1)}}}} : TRUE

\* the routine repeated while its tap hits a joker, as Keystream::next does
RECURSIVE routine_until_tap(_)
routine_until_tap(d) ==
    LET d4 == CHOOSE x \in
                {count_cut(d3, None) :
                    d3 \in {triple_cut(d2, JOKER_A, JOKER_B) :
                        d2 \in {push(d1, JOKER_B, 2) :
                            d1 \in {push(d, JOKER_A, 1)}}}} : TRUE
    IN  IF d4 = Panic \/ deck_output(d4) # None THEN d4
        ELSE routine_until_tap(d4)

\* mutant of key_step: the routine is repeated while the tap hits a joker,
\* as in the keystream, before the count-cut by the letter
key_step_with_tap(d, ch) ==
    CHOOSE d5 \in {count_cut(d4, ch) : d4 \in {routine_until_tap(d)}} : TRUE

\* the body of the loop of Deck::from_passphrase, for one letter value ch
\* (each statement's deck is bound as a value before the next one runs)
key_step(d, ch) ==
    CHOOSE d5 \in
        {count_cut(d4, ch) :
            d4 \in {count_cut(d3, None) :
                d3 \in {triple_cut(d2, JOKER_A, JOKER_B) :
                    d2 \in {push(d1, JOKER_B, 2) :
                        d1 \in {push(d, JOKER_A, 1)}}}}} : TRUE

RECURSIVE key_fold(_, _)
key_fold(d, chs) ==
    IF chs = <<>> \/ d = Panic THEN d
    ELSE key_fold(key_step(d, Head(chs)), Tail(chs))

\* mutant of from_passphrase: one round of the routine runs before the first
\* letter is read
from_passphrase_round_first(phrase) ==
    key_fold(count_cut(triple_cut(push(push(NewDeck, JOKER_A, 1), JOKER_B, 2),
                                  JOKER_A, JOKER_B), None),
             textbyte(phrase))

\* Deck::from_passphrase
from_passphrase(phrase) == key_fold(NewDeck, textbyte(phrase))

\* mutant of check: the smallest and the largest value are not looked at
check_no_bounds(cards) ==
    LET scards == {cards[i] : i \in 1..Len(cards)}
    IN  IF Len(cards) # DECK_SIZE THEN [ok |-> FALSE, err |-> "WrongNumber"]
        ELSE IF Cardinality(scards) # DECK_SIZE
             THEN [ok |-> FALSE, err |-> "NotUnique"]
        ELSE [ok |-> TRUE, deck |-> cards]

\* MaybeDeck::check on the collected values
check(cards) ==
    LET scards == {cards[i] : i \in 1..Len(cards)}   \* sort, then dedup
    IN  IF Len(cards) # DECK_SIZE THEN [ok |-> FALSE, err |-> "WrongNumber"]
        ELSE IF Cardinality(scards) # DECK_SIZE
             THEN [ok |-> FALSE, err |-> "NotUnique"]
        ELSE IF Min(scards) # 1
                \/ (CHOOSE x \in scards : \A y \in scards : y <= x) # DECK_SIZE
             THEN [ok |-> FALSE, err |-> "OutOfBounds"]
        ELSE [ok |-> TRUE, deck |-> cards]

(***************************************************************************)
(* The keystream (src/src/lib.rs).                                         *)
(***************************************************************************)
\* mutant of advance: Joker B is pushed before Joker A
advance_b_first(d) ==
    CHOOSE d4 \in
        {count_cut(d3, None) :
            d3 \in {triple_cut(d2, JOKER_A, JOKER_B) :
                d2 \in {push(d1, JOKER_A, 1) :
                    d1 \in {push(d, JOKER_B, 2)}}}} : TRUE

\* the first four statements of the loop body of Keystream::next
\* (each statement's deck is bound as a value before the next one runs)
advance(d) ==
    CHOOSE d4 \in
        {count_cut(d3, None) :
            d3 \in {triple_cut(d2, JOKER_A, JOKER_B) :
                d2 \in {push(d1, JOKER_B, 2) :
                    d1 \in {push(d, JOKER_A, 1)}}}} : TRUE

\* Keystream::next as one call: the deck it leaves and the value it returns
RECURSIVE next_loop(_, _, _)
next_loop(d, out, n) ==
    IF out # None THEN [deck |-> d, item |-> out, taps |-> n]
    ELSE LET d2 == advance(d)
         IN  IF d2 = Panic THEN [deck |-> Panic, item |-> None, taps |-> n]
             ELSE next_loop(d2, deck_output(d2), n + 1)

keystream_next(d) == next_loop(d, None, 0)

(***************************************************************************)
(* The decks the model starts from.                                        *)
(***************************************************************************)
\* the passphrases of the tests of src/src/lib.rs
KeyEmpty == <<>>
KeyF     == <<102>>
KeyFo    == <<102, 111>>
KeyFoo   == <<102, 111, 111>>
KeyA     == <<97>>
KeyAa    == <<97, 97>>
KeyAaa   == <<97, 97, 97>>
KeyB     == <<98>>
KeyBc    == <<98, 99>>
KeyBcd   == <<98, 99, 100>>
KeyCryptonomicon ==
    <<99, 114, 121, 112, 116, 111, 110, 111, 109, 105, 99, 111, 110>>
\* "Foo, 1!": mixed case with characters that are no letters
KeyMixed == <<70, 111, 111, 44, 32, 49, 33>>

\* "1 2!" and an e with an acute accent: no ASCII letter
KeyNoLetter == <<49, 32, 50, 33, 233>>

\* "ale": after the routine of its third letter the tap would hit a joker
KeyAle == <<97, 108, 101>>

Keys == {KeyEmpty, KeyF, KeyFo, KeyFoo, KeyA, KeyAa, KeyAaa, KeyB, KeyBc,
         KeyBcd, KeyCryptonomicon, KeyMixed, KeyNoLetter, KeyAle}

\* card values handed to MaybeDeck: i |-> (i * m) mod (DECK_SIZE + 1), a
\* permutation of 1..DECK_SIZE exactly when m is coprime to DECK_SIZE + 1
MulCards(m) == [i \in 1..DECK_SIZE |-> (i * m) % (DECK_SIZE + 1)]

ParsedDecks == {check(MulCards(m)).deck : m \in {k \in 1..MaxMul : check(MulCards(k)).ok}}

NoOp == [op |-> "none", a |-> 0, b |-> 0]

Idle ==
    /\ pc = "idle" /\ output = None /\ stream = <<>> /\ taps = 0
    /\ prev = deck /\ last = NoOp /\ ops = 0
    /\ text = <<>> /\ cipher = <<>> /\ plain = <<>> /\ phase = "none"
    /\ bytes = <<>> /\ pstream = <<>>
    /\ arg = <<>> /\ result = <<>>

\* Deck::new(), Deck::from_passphrase(key), or MaybeDeck::check returning Ok
Init ==
    /\ \/ /\ origin = "new"
          /\ key = <<>>
          /\ deck = NewDeck
       \/ /\ origin = "passphrase"
          /\ key \in Keys
          /\ deck = from_passphrase(key)
       \/ /\ origin = "parsed"
          /\ key = <<>>
          /\ deck \in ParsedDecks
    /\ Idle

(***************************************************************************)
(* Keystream::next, one loop iteration at a time.                          *)
(***************************************************************************)
\* entry: `let mut output = None;`
Call ==
    /\ pc = "idle"
    /\ Len(stream) < MaxOut
    /\ pc' = "loop"
    /\ output' = None
    /\ taps' = 0
    /\ prev' = deck
    /\ UNCHANGED <<deck, origin, key, stream, last, ops, text, cipher, plain, phase>>
    /\ UNCHANGED <<bytes, pstream, arg, result>>

\* the body of `while output.is_none()`
Advance ==
    /\ pc = "loop"
    /\ output = None
    /\ LET d == advance(deck)
       IN  /\ deck' = d
           /\ IF d = Panic
              THEN pc' = "panic" /\ output' = None
              ELSE pc' = pc /\ output' = deck_output(d)
    /\ taps' = IF taps < MaxTaps THEN taps + 1 ELSE taps
    /\ UNCHANGED <<origin, key, stream, prev, last, ops, text, cipher, plain, phase>>
    /\ UNCHANGED <<bytes, pstream, arg, result>>

\* exit: `output.map(u8::from)`
Return ==
    /\ pc = "loop"
    /\ output # None
    /\ stream' = Append(stream, output)
    /\ pc' = "idle"
    /\ UNCHANGED <<deck, origin, key, output, taps, prev, last, ops, text, cipher, plain, phase>>
    /\ UNCHANGED <<bytes, pstream, arg, result>>

Next == Call \/ Advance \/ Return

Spec == Init /\ [][Next]_vars

\* the loop of Keystream::next keeps running: nothing else can run
LiveSpec == Spec /\ WF_vars(Advance) /\ WF_vars(Return)

(***************************************************************************)
(* The Deck's public operations called directly, in any order, with the    *)
(* keystream's next among them (src/src/deck.rs, src/src/lib.rs).          *)
(***************************************************************************)
\* the cards the operations are called with: the lowest, a middle one and
\* both jokers
SomeCards == {1, DECK_SIZE \div 2, JOKER_A, JOKER_B}

\* the distances push is called with
SomeCounts == {0, 1, 2, DECK_SIZE}

\* the overrides count_cut is called with
SomeOverrides == {0, 1, DECK_SIZE - 1}

\* the deck after an operation; a panic ends the program
Applied(d, op) ==
    /\ pc = "idle"
    /\ ops < MaxOps
    /\ deck' = d
    /\ prev' = deck
    /\ last' = op
    /\ ops' = ops + 1
    /\ pc' = IF d = Panic THEN "panic" ELSE pc
    /\ UNCHANGED <<origin, key, output, taps, text, cipher, plain, phase>>
    /\ UNCHANGED <<bytes, pstream, arg, result>>

\* deck.push(card, n)
DoPush ==
    \E card \in SomeCards, n \in SomeCounts :
        /\ Applied(push(deck, card, n), [op |-> "push", a |-> card, b |-> n])
        /\ UNCHANGED stream

\* deck.triple_cut(card0, card1)
DoTripleCut ==
    \E card0 \in SomeCards, card1 \in SomeCards :
        /\ card0 # card1
        /\ Applied(triple_cut(deck, card0, card1),
                   [op |-> "triple_cut", a |-> card0, b |-> card1])
        /\ UNCHANGED stream

\* deck.count_cut(override_idx)
DoCountCut ==
    \E override_idx \in {None} \cup SomeOverrides :
        /\ Applied(count_cut(deck, override_idx),
                   [op |-> "count_cut", a |-> override_idx, b |-> 0])
        /\ UNCHANGED stream

\* keystream.next(), the whole call
DoNext ==
    LET r == keystream_next(deck)
    IN  /\ Applied(r.deck, [op |-> "next", a |-> r.item, b |-> r.taps])
        /\ stream' = IF r.deck = Panic THEN stream ELSE Append(stream, r.item)

\* deck.output(): takes &self and is no operation that counts toward MaxOps
DoOutput ==
    /\ pc = "idle"
    /\ last' = [op |-> "output", a |-> deck_output(deck), b |-> 0]
    /\ prev' = deck
    /\ UNCHANGED <<deck, origin, key, pc, output, stream, taps, ops,
                   text, cipher, plain, phase>>
    /\ UNCHANGED <<bytes, pstream, arg, result>>

DeckNext == DoPush \/ DoTripleCut \/ DoCountCut \/ DoNext \/ DoOutput

SpecDeck == Init /\ [][DeckNext]_vars

(***************************************************************************)
(* The Deck's operations called once with any argument their signatures    *)
(* admit (src/src/deck.rs).                                                *)
(***************************************************************************)
\* n: usize of push, around the multiples of DECK_SIZE and DECK_SIZE - 1
AnyCounts == {0, 1, 2, DECK_SIZE - 1, DECK_SIZE, 2 * DECK_SIZE - 1, 1000}

\* override_idx: Option<u8> of count_cut
AnyOverrides == {None, 0, 26, DECK_SIZE - 1, DECK_SIZE, 255}

\* deck.push(card, n)
AnyPush ==
    \E card \in 1..DECK_SIZE, n \in AnyCounts :
        /\ ops = 0
        /\ Applied(push(deck, card, n), [op |-> "push", a |-> card, b |-> n])
        /\ UNCHANGED stream

\* deck.triple_cut(card0, card1), the two cards equal or not
AnyTripleCut ==
    /\ pc = "idle"
    /\ ops = 0
    /\ \E card0 \in SomeCards \cup {deck[1], deck[DECK_SIZE]}, card1 \in SomeCards :
          /\ Applied(triple_cut(deck, card0, card1),
                     [op |-> "triple_cut", a |-> card0, b |-> card1])
          /\ UNCHANGED stream

\* deck.count_cut(override_idx)
AnyCountCut ==
    \E override_idx \in AnyOverrides :
        /\ ops = 0
        /\ Applied(count_cut(deck, override_idx),
                   [op |-> "count_cut", a |-> override_idx, b |-> 0])
        /\ UNCHANGED stream

AnyNext == AnyPush \/ AnyTripleCut \/ AnyCountCut \/ DoOutput

SpecAny == Init /\ [][AnyNext]_vars

(***************************************************************************)
(* The text pipeline (src/src/textbyte.rs) and encrypt / decrypt           *)
(* (src/src/lib.rs).                                                       *)
(***************************************************************************)
GROUP_SIZE == 5

\* b'X' - b'A' + 1
PAD_CHAR == 88 - 65 + 1

\* u8 arithmetic of a release build: the result modulo 2^8
U8(x) == x % 256

\* Pad::pad: the stream, then `padding` while the index is no multiple of
\* group_size (take_while on the enumerated zip_longest)
RECURSIVE pad_tail(_, _, _)
pad_tail(idx, padding, group_size) ==
    IF idx % group_size # 0
    THEN <<padding>> \o pad_tail(idx + 1, padding, group_size)
    ELSE <<>>

\* mutant of pad: a whole group of padding follows a stream whose length is
\* a multiple of group_size already
pad_full_group(v, padding, group_size) ==
    v \o [i \in 1..(group_size - (Len(v) % group_size)) |-> padding]

pad(v, padding, group_size) == v \o pad_tail(Len(v), padding, group_size)

\* the first n items of keystream(d), as Iterator::zip pulls them
RECURSIVE keystream_take(_, _)
keystream_take(d, n) ==
    IF n = 0 \/ d = Panic THEN <<>>
    ELSE LET r == keystream_next(d)
         IN  IF r.deck = Panic THEN <<>>
             ELSE <<r.item>> \o keystream_take(r.deck, n - 1)

\* Restore::restore, for one byte
restore(b) == (U8(b - 1) % 26) + 65

\* itertools chunks(group_size)
RECURSIVE chunks(_, _)
chunks(v, group_size) ==
    IF v = <<>> THEN <<>>
    ELSE IF Len(v) <= group_size THEN <<v>>
    ELSE <<SubSeq(v, 1, group_size)>>
         \o chunks(SubSeq(v, group_size + 1, Len(v)), group_size)

\* interleave_shortest with repeat(once(group_sep)), then flatten: each chunk
\* is followed by one separator, the last one too
RECURSIVE interleave_flatten(_, _)
interleave_flatten(cs, group_sep) ==
    IF cs = <<>> THEN <<>>
    ELSE Head(cs) \o <<group_sep>> \o interleave_flatten(Tail(cs), group_sep)

\* with_position and filter_map: all but the Last item pass, the Last one
\* passes when it is no separator
drop_last_sep(v, group_sep) ==
    IF Len(v) >= 2 /\ v[Len(v)] = group_sep THEN SubSeq(v, 1, Len(v) - 1) ELSE v

\* the items of the iterator Separated::new builds
separate(v, group_sep, group_size) ==
    drop_last_sep(interleave_flatten(chunks(v, group_size), group_sep), group_sep)

\* the characters crypt's iterator chain computes
crypt_chars(d, t, operation) ==
    LET padded == pad(textbyte(t), PAD_CHAR, GROUP_SIZE)
        ks     == keystream_take(d, Len(padded))
    IN  IF Len(ks) # Len(padded) THEN Panic
        ELSE separate([i \in 1..Len(padded) |-> restore(operation[padded[i], ks[i]])],
                      32, GROUP_SIZE)

\* what reading through Separated.separated can give.  Separated::new takes
\* the pointer from a reference to a temporary (`NonNull::from(&(...))`),
\* which is dropped at the end of that `let` statement, so Separated::next
\* dereferences a dangling pointer: the read is undefined, and either finds
\* the iterator's bytes still in place or does not.
SeparatedReads == {"intact", "undefined"}

\* crypt: its result for one outcome of the reads through Separated.separated
crypt(d, t, operation, read) ==
    IF read = "intact"
    THEN [defined |-> TRUE, out |-> crypt_chars(d, t, operation)]
    ELSE [defined |-> FALSE, out |-> <<>>]

\* encrypt, with its closure |p, k| p + k
encrypt(d, t, read) ==
    crypt(d, t, [p \in 0..255, k \in 0..255 |-> U8(p + k)], read)

\* decrypt, with its closure |c, k| c + (26 * 3) - k
decrypt(d, t, read) ==
    crypt(d, t, [c \in 0..255, k \in 0..255 |-> U8(c + (26 * 3) - k)], read)

\* messages: the texts of the tests, and every text of up to MaxMsgLen
\* characters over 'a', 'Z' and ' '
MsgSolitaire == <<83, 79, 76, 73, 84, 65, 73, 82, 69>>
MsgKirak     == <<107, 105, 114, 97, 107, 32, 115, 102, 106, 97, 110>>
MsgAaaaa     == <<97, 97, 97, 97, 97, 32, 97, 97, 97, 97, 97>>
MsgSuper     == <<83, 117, 112, 101, 114, 99, 97, 108, 105, 102, 114, 97,
                  103, 105, 108, 105, 115, 116, 105, 99, 101, 120, 112,
                  105, 97, 108, 105, 100, 111, 99, 105, 111, 117, 115>>

MsgChars == {97, 90, 32}

Messages ==
    {MsgSolitaire, MsgKirak, MsgAaaaa, MsgSuper}
    \cup UNION {[1..n -> MsgChars] : n \in 0..MaxMsgLen}

CryptKeys == {KeyEmpty, KeyFoo, KeyCryptonomicon}

\* a deck from a passphrase or a parsed one, and a message
InitCrypt ==
    /\ \/ /\ origin = "passphrase"
          /\ key \in CryptKeys
          /\ deck = from_passphrase(key)
       \/ /\ origin = "parsed"
          /\ key = <<>>
          /\ deck \in ParsedDecks
    /\ pc = "idle" /\ output = None /\ stream = <<>> /\ taps = 0
    /\ prev = deck /\ last = NoOp /\ ops = 0
    /\ text \in Messages
    /\ cipher = <<>> /\ plain = <<>> /\ phase = "ready"
    /\ bytes = <<>> /\ pstream = <<>>
    /\ arg = <<>> /\ result = <<>>

\* let ciphertext = encrypt(deck.clone(), msg)
Encrypt ==
    /\ phase = "ready"
    /\ \E read \in SeparatedReads :
          LET r == encrypt(deck, text, read)
          IN  /\ cipher' = r.out
              /\ phase' = IF r.defined THEN "encrypted" ELSE "encrypt undefined"
    /\ UNCHANGED <<deck, origin, key, pc, output, stream, taps, prev, last, ops,
                   text, plain>>
    /\ UNCHANGED <<bytes, pstream, arg, result>>

\* let plaintext = decrypt(deck, &ciphertext)
DecryptCipher ==
    /\ phase = "encrypted"
    /\ \E read \in SeparatedReads :
          LET r == decrypt(deck, cipher, read)
          IN  /\ plain' = r.out
              /\ phase' = IF r.defined THEN "roundtrip" ELSE "roundtrip undefined"
    /\ UNCHANGED <<deck, origin, key, pc, output, stream, taps, prev, last, ops,
                   text, cipher>>
    /\ UNCHANGED <<bytes, pstream, arg, result>>

\* decrypt(deck, msg)
Decrypt ==
    /\ phase = "ready"
    /\ \E read \in SeparatedReads :
          LET r == decrypt(deck, text, read)
          IN  /\ plain' = r.out
              /\ phase' = IF r.defined THEN "decrypted" ELSE "decrypt undefined"
    /\ UNCHANGED <<deck, origin, key, pc, output, stream, taps, prev, last, ops,
                   text, cipher>>
    /\ UNCHANGED <<bytes, pstream, arg, result>>

CryptNext == Encrypt \/ DecryptCipher \/ Decrypt

SpecCrypt == InitCrypt /\ [][CryptNext]_vars

(***************************************************************************)
(* textbyte and pad applied to a text, as crypt applies them               *)
(* (src/src/textbyte.rs, src/src/lib.rs).                                  *)
(***************************************************************************)
\* the texts of test_convert_text and test_padding
TextAbc    == <<97, 98, 99>>
TextXyz    == <<120, 121, 122>>
TextAbcDef == <<97, 98, 99, 32, 100, 101, 102>>
TextXyzFed == <<120, 121, 122, 46, 102, 101, 100>>
TextAbcde  == <<97, 98, 99, 100, 101>>
TextAbcdef == <<97, 98, 99, 100, 101, 102>>
TextDotted == <<97, 46, 98, 46, 99, 46, 100>>

\* 'a', 'Z', a digit, a blank, a letter that is not ASCII, and the
\* characters right before and after the two ranges of ASCII letters
TextChars == {97, 90, 53, 32, 233, 64, 91, 96, 123}

Texts ==
    {TextAbc, TextXyz, TextAbcDef, TextXyzFed, TextAbcde, TextAbcdef,
     TextDotted, MsgAaaaa, MsgSuper}
    \cup UNION {[1..n -> TextChars] : n \in 0..MaxTextLen}

InitText ==
    /\ origin = "new" /\ key = <<>> /\ deck = NewDeck
    /\ pc = "idle" /\ output = None /\ stream = <<>> /\ taps = 0
    /\ prev = deck /\ last = NoOp /\ ops = 0
    /\ text \in Texts
    /\ cipher = <<>> /\ plain = <<>> /\ phase = "text"
    /\ bytes = <<>> /\ pstream = <<>>
    /\ arg = <<>> /\ result = <<>>

\* textbyte(text)
DoTextbyte ==
    /\ phase = "text"
    /\ bytes' = textbyte(text)
    /\ phase' = "bytes"
    /\ UNCHANGED <<deck, origin, key, pc, output, stream, taps, prev, last, ops,
                   text, cipher, plain, pstream, arg, result>>

\* .pad(PAD_CHAR, GROUP_SIZE)
DoPad ==
    /\ phase = "bytes"
    /\ pstream' = pad(bytes, PAD_CHAR, GROUP_SIZE)
    /\ phase' = "padded"
    /\ UNCHANGED <<deck, origin, key, pc, output, stream, taps, prev, last, ops,
                   text, cipher, plain, bytes, arg, result>>

TextNext == DoTextbyte \/ DoPad

SpecText == InitText /\ [][TextNext]_vars

(***************************************************************************)
(* Claims about the Deck operations, checked under SpecDeck.               *)
(***************************************************************************)
\* a permutation of 1..DECK_SIZE
IsPermutation(d) ==
    /\ Len(d) = DECK_SIZE
    /\ {d[i] : i \in 1..Len(d)} = 1..DECK_SIZE

\* C1: after any sequence of push, triple_cut, count_cut and next the deck
\* is a permutation of 1..54 (length 54, every value once, both jokers in it)
C1_DeckStaysPermutation ==
    /\ pc # "panic"
    /\ IsPermutation(deck)
    /\ \E i, j \in 1..Len(deck) : deck[i] = JOKER_A /\ deck[j] = JOKER_B

\* a sequence of operations ending with a push that moved a card
C1_Witness == ops = MaxOps /\ last.op = "push" /\ deck # prev

\* the code's index of a card of a permutation
IndexOf(d, card) == CHOOSE i \in 0..(Len(d) - 1) : d[i + 1] = card

\* the deck without one card
Without(d, card) == SelectSeq(d, LAMBDA x : x # card)

\* what C9 says of one push: `after` is `before` with card pushed down by n
PushedAsClaimed(before, after, card, n) ==
    LET i == IndexOf(before, card)
    IN  /\ Len(after) = DECK_SIZE
        /\ IndexOf(after, card) = (IF i + n <= 53 THEN i + n ELSE (i + n) % 53)
        /\ Without(after, card) = Without(before, card)
        /\ (i = 53 /\ n = 1) => IndexOf(after, card) = 1
        /\ (i = 53 /\ n = 2) => IndexOf(after, card) = 2
        /\ (i = 52 /\ n = 2) => IndexOf(after, card) = 1

\* C9: push(c, n) with n in {1, 2} moves the card at index i to i + n when
\* i + n <= 53 and to (i + n) mod 53 otherwise, and keeps the order of the
\* other 53 cards: for the push just called, and for a push of any card of
\* a deck on which the model calls further operations
C9_PushDestination ==
    /\ (last.op = "push" /\ last.b \in {1, 2}) =>
            PushedAsClaimed(prev, deck, last.a, last.b)
    /\ (pc = "idle" /\ ops < MaxOps) =>
            \A card \in 1..DECK_SIZE, n \in {1, 2} :
                PushedAsClaimed(deck, push(deck, card, n), card, n)

\* the card at index 52 has been pushed by 2 and landed at index 1
C9_Witness ==
    /\ last.op = "push" /\ last.b = 2
    /\ IndexOf(prev, last.a) = 52
    /\ IndexOf(deck, last.a) = 1

\* what C10 says of one triple cut: `after` is `before` cut at cards a and b
CutAsClaimed(before, after, a, b) ==
    LET ia == IndexOf(before, a)
        ib == IndexOf(before, b)
        p  == IF ia < ib THEN ia ELSE ib
        q  == IF ia < ib THEN ib ELSE ia
        below == 53 - q   \* number of cards formerly below q
    IN  /\ Len(after) = DECK_SIZE
        /\ \A j \in 0..53 :
              after[j + 1] = IF j < below THEN before[(q + 1 + j) + 1]
                             ELSE IF j <= below + (q - p) THEN before[(p + j - below) + 1]
                             ELSE before[(j - below - (q - p) - 1) + 1]
        /\ IndexOf(after, b) - IndexOf(after, a) = ib - ia

\* C10: triple_cut(a, b), the anchors at p < q: the new deck is the cards
\* formerly below q, then those at p..q in their order, then those formerly
\* above p; the anchors keep their order and their distance: for the triple
\* cut just called, and for every pair of cards of a starting deck
C10_TripleCutRanges ==
    /\ last.op = "triple_cut" => CutAsClaimed(prev, deck, last.a, last.b)
    /\ ops = 0 =>
          \A a \in 1..DECK_SIZE, b \in 1..DECK_SIZE :
              a # b => CutAsClaimed(deck, triple_cut(deck, a, b), a, b)

\* a triple cut whose top range was empty and whose bottom range was not
C10_Witness ==
    /\ last.op = "triple_cut"
    /\ prev[1] \in {last.a, last.b}
    /\ prev[DECK_SIZE] \notin {last.a, last.b}
    /\ deck # prev

\* what C11 says of one count cut: `after` is `before` cut at the effective
\* index k, the bottom card in place
CountCutAsClaimed(before, after, override_idx) ==
    LET k == IF override_idx # None THEN override_idx
             ELSE IF before[54] = 54 THEN 53 ELSE before[54]
    IN  /\ Len(after) = DECK_SIZE
        /\ \A j \in 0..52 :
              after[j + 1] = IF j < 53 - k THEN before[(k + j) + 1]
                             ELSE before[(j - (53 - k)) + 1]
        /\ after[54] = before[54]

\* C11: count_cut with effective index k (the override, or the bottom card's
\* value with Joker B counted as 53) puts the cards formerly at k..52 on top
\* of those formerly at 0..k-1 and leaves the bottom card where and what it
\* was: for the count cut just called, and for every k in 0..53 and no
\* override on every deck on which the model calls further operations
C11_CountCutRanges ==
    /\ last.op = "count_cut" /\ pc # "panic" =>
            CountCutAsClaimed(prev, deck, last.a)
    /\ (pc = "idle" /\ ops < MaxOps) =>
            \A k \in {None} \cup (0..53) :
                CountCutAsClaimed(deck, count_cut(deck, k), k)

\* a count cut by a bottom card that is no joker has moved cards
C11_Witness ==
    /\ last.op = "count_cut" /\ last.a = None
    /\ prev[54] \notin {JOKER_A, JOKER_B}
    /\ deck # prev /\ deck[54] = prev[54]

\* what C12 says output returns for a deck
TapAsClaimed(d) ==
    LET v == IF d[1] = 54 THEN 53 ELSE d[1]
        c == d[v + 1]
    IN  IF c = 53 \/ c = 54 THEN None ELSE c

\* C12: output reads the top card's value v (Joker B counted as 53), looks at
\* the card at index v, returns None when that card is a joker and the
\* card's value otherwise, and leaves the deck as it was: for the output
\* just called, and for every deck the model reaches
C12_OutputTap ==
    /\ last.op = "output" => deck = prev /\ last.a = TapAsClaimed(prev)
    /\ pc = "idle" =>
          /\ deck_output(deck) = TapAsClaimed(deck)
          /\ deck_output(deck) \in {None} \cup (1..52)

\* output was called with Joker B on top and returned the card at index 53
C12_Witness ==
    /\ last.op = "output" /\ prev[1] = JOKER_B
    /\ last.a = prev[54] /\ last.a \in 1..52

\* C15: triple_cut applied twice in a row with the same two anchor cards
\* gives back the deck it started from: for the triple cut just called (a
\* second one undoes it), for every pair of cards of the jokers, the top card
\* and the bottom card on every deck on which the model calls further
\* operations, and for every pair of cards on a starting deck
C15_TripleCutTwice ==
    /\ last.op = "triple_cut" /\ pc # "panic" =>
            triple_cut(deck, last.a, last.b) = prev
    /\ (pc = "idle" /\ ops < MaxOps) =>
            \A a, b \in {JOKER_A, JOKER_B, deck[1], deck[54]} :
                a # b => triple_cut(triple_cut(deck, a, b), a, b) = deck
    /\ ops = 0 =>
            \A a \in 1..DECK_SIZE, b \in 1..DECK_SIZE :
                a # b => triple_cut(triple_cut(deck, a, b), a, b) = deck

\* a triple cut has changed the deck, and a second one would change it back
C15_Witness ==
    /\ last.op = "triple_cut" /\ deck # prev
    /\ triple_cut(deck, last.a, last.b) = prev
    /\ prev[1] \notin {last.a, last.b} /\ prev[54] \notin {last.a, last.b}

\* C16: count_cut(Some(0)) leaves the deck unchanged, and so does
\* count_cut(None) when the bottom card is Joker A or Joker B: for the count
\* cut just called, and for every deck the model reaches
C16_CountCutIdentity ==
    /\ last.op = "count_cut" /\ last.a = 0 => deck = prev
    /\ last.op = "count_cut" /\ last.a = None /\ prev[54] \in {JOKER_A, JOKER_B} =>
            deck = prev
    /\ pc = "idle" =>
          /\ count_cut(deck, 0) = deck
          /\ deck[54] \in {JOKER_A, JOKER_B} => count_cut(deck, None) = deck

\* count_cut(None) was called with Joker A at the bottom, and on another
\* deck than the sorted one
C16_Witness ==
    /\ last.op = "count_cut" /\ last.a = None
    /\ prev[54] = JOKER_A /\ prev # [i \in 1..54 |-> i]
    /\ deck = prev

\* C17: for every card c, push(c, 54) gives the same deck as push(c, 1):
\* stated of the push just called
C17_PushFiftyFour ==
    last.op = "push" /\ last.b = 54 => deck = push(prev, last.a, 1)

\* what the code does instead: push(c, 54) leaves the deck as it is, which
\* is what push(c, 0) does
PushFiftyFourIsIdentity ==
    /\ last.op = "push" /\ last.b = 54 => deck = prev
    /\ pc = "idle" =>
            \A c \in 1..DECK_SIZE :
                push(deck, c, 54) = deck /\ push(deck, c, 0) = deck

\* C18: push, triple_cut, count_cut and output are total on a valid deck:
\* with any card of the deck, any n, any two cards, no override or any
\* override k, the call completes and leaves a valid deck (checked under
\* SpecAny)
C18_PrimitivesTotal ==
    /\ pc # "panic"
    /\ last.op # "none" => deck # Panic /\ IsPermutation(deck)

\* what the code does: only count_cut with an override above 53 fails
OnlyLargeOverridesFail ==
    /\ pc = "panic" <=> (last.op = "count_cut" /\ last.a > 53)
    /\ pc # "panic" => IsPermutation(deck)

(***************************************************************************)
(* Claims about the keystream, checked under Spec and LiveSpec.            *)
(***************************************************************************)
\* the five-step routine applied n times to d, without the tap
RECURSIVE Routine(_, _)
Routine(d, n) ==
    IF n = 0 THEN d
    ELSE LET d0 == Routine(d, n - 1)
             d1 == push(d0, JOKER_A, 1)
             d2 == push(d1, JOKER_B, 2)
             d3 == triple_cut(d2, JOKER_A, JOKER_B)
         IN  count_cut(d3, None)

\* the card the tap reads: the one at the index the top card names
Tapped(d) == At(d, IF At(d, 0) = JOKER_B THEN JOKER_A ELSE At(d, 0))

\* C2: inside a call of next the deck is the deck of the call's start with
\* the routine (push Joker A by 1, push Joker B by 2, triple-cut on the
\* jokers, count-cut by the bottom card) applied `taps` times in a row, never
\* reset; `output` is the tap of that deck; every earlier tap of the call hit
\* a joker; and the value returned is the tap of the deck left behind, which
\* is no joker.
C2_RoutineOrderAndSkip ==
    /\ (pc \in {"loop", "idle"} /\ taps < MaxTaps) =>
          /\ deck = Routine(prev, taps)
          /\ \A k \in 1..(taps - 1) : Tapped(Routine(prev, k)) \in {JOKER_A, JOKER_B}
    /\ (pc = "loop" /\ taps >= 1) =>
          output = (IF Tapped(deck) \in {JOKER_A, JOKER_B} THEN None ELSE Tapped(deck))
    /\ (pc = "idle" /\ stream # <<>>) =>
          /\ stream[Len(stream)] = Tapped(deck)
          /\ Tapped(deck) \notin {JOKER_A, JOKER_B}

\* a call that repeated the routine after a joker tap has returned
C2_Witness == pc = "idle" /\ stream # <<>> /\ taps = 2

\* C3: every value next has returned is a card value in 1..52, never 53 or 54
C3_OutputsAreCards ==
    \A i \in 1..Len(stream) : stream[i] \in 1..52

\* a whole stream has been returned, one of its calls having skipped a joker
C3_Witness == Len(stream) = MaxOut /\ taps >= 2

\* C5: a call of next returns: the loop reaches a tap that is no joker
C5_NextReturns == (pc = "loop") ~> (pc = "idle" /\ output # None)

\* a call has returned after more than one repetition of the routine
C5_Witness == pc = "idle" /\ Len(stream) >= 2 /\ taps >= 2 /\ output # None

\* the first nine values of the fresh deck (test_example_outputs_3)
FreshNine == <<4, 49, 10, 24, 8, 51, 44, 6, 4>>

\* C6: from the fresh sorted deck the stream starts 4 49 10 24 8 51 44 6 4,
\* and among the advancements that produce them exactly the fourth (the first
\* one of the fourth call) taps a joker
C6_FreshDeckStream ==
    origin = "new" =>
        /\ \A i \in 1..Len(stream) : i <= Len(FreshNine) => stream[i] = FreshNine[i]
        /\ (pc = "loop" /\ taps >= 1 /\ Len(stream) < Len(FreshNine)) =>
              ((output = None) <=> (Len(stream) = 3 /\ taps = 1))

\* nine values have been taken from the fresh deck
C6_Witness == origin = "new" /\ Len(stream) = Len(FreshNine) /\ stream[9] = 4

\* the first fifteen values for the passphrase "foo" (test_passphrase_keygen)
FooFifteen == <<8, 19, 7, 25, 20, 9, 8, 22, 32, 43, 5, 26, 17, 38, 48>>

\* C7: the deck keyed from "foo" yields 8 19 7 25 20 9 8 22 32 43 5 26 17 38 48
C7_FooStream ==
    (origin = "passphrase" /\ key = KeyFoo) =>
        \A i \in 1..Len(stream) : i <= Len(FooFifteen) => stream[i] = FooFifteen[i]

\* fifteen values have been taken from the deck keyed from "foo"
C7_Witness ==
    origin = "passphrase" /\ key = KeyFoo /\ Len(stream) = Len(FooFifteen)

(***************************************************************************)
(* Claims about encrypt and decrypt, checked under SpecCrypt.              *)
(***************************************************************************)
\* the letters of m, uppercased, as character codes
Letters(m) ==
    LET ls == SelectSeq(m, LAMBDA c : (c >= 65 /\ c <= 90) \/ (c >= 97 /\ c <= 122))
    IN  [i \in 1..Len(ls) |-> IF ls[i] >= 97 THEN ls[i] - 32 ELSE ls[i]]

\* the normalized form of m: its letters uppercased, padded with X to a
\* multiple of five, in groups of five with single spaces
Normalized(m) ==
    LET ls     == Letters(m)
        groups == (Len(ls) + 4) \div 5
        total  == IF groups = 0 THEN 0 ELSE 6 * groups - 1
    IN  [k \in 1..total |->
            IF k % 6 = 0 THEN 32
            ELSE LET i == k - (k \div 6)
                 IN  IF i <= Len(ls) THEN ls[i] ELSE 88]

\* C4, as far as the code defines a result: when both encrypt and decrypt read
\* their iterator intact, decrypt(deck, encrypt(deck, m)) is the normalized
\* form of m
RoundTripWhenIntact == phase = "roundtrip" => plain = Normalized(text)

\* C4: for every valid deck and every message m, decrypt(deck, encrypt(deck,
\* m)) equals the normalized form of m (letters uppercased, padded with X to a
\* multiple of five, grouped in fives with single spaces)
C4_RoundTripNormalizes ==
    /\ phase \notin {"encrypt undefined", "roundtrip undefined"}
    /\ phase = "roundtrip" => plain = Normalized(text)

\* "KIRAK SFJAN" and "SOLIT AIREX"
Kirak == <<75, 73, 82, 65, 75, 32, 83, 70, 74, 65, 78>>
Solit == <<83, 79, 76, 73, 84, 32, 65, 73, 82, 69, 88>>

\* C8, as far as the code defines a result: with the pointer's target intact
\* the two texts of the example come out
ExampleWhenIntact ==
    origin = "passphrase" /\ key = KeyCryptonomicon =>
        /\ phase = "encrypted" /\ text = MsgSolitaire => cipher = Kirak
        /\ phase = "decrypted" /\ text = MsgKirak => plain = Solit

\* C8: with the deck keyed from "cryptonomicon", encrypt of "SOLITAIRE" is
\* "KIRAK SFJAN" and decrypt of "KIRAK SFJAN" is "SOLIT AIREX"
C8_CryptonomiconExample ==
    origin = "passphrase" /\ key = KeyCryptonomicon =>
        /\ text = MsgSolitaire /\ phase \in {"encrypted", "encrypt undefined"} =>
               phase = "encrypted" /\ cipher = Kirak
        /\ text = MsgKirak /\ phase \in {"decrypted", "decrypt undefined"} =>
               phase = "decrypted" /\ plain = Solit

(***************************************************************************)
(* Claims about Deck::from_passphrase, checked under Spec.                 *)
(***************************************************************************)
\* the state right after construction: nothing has been called yet
JustConstructed ==
    pc = "idle" /\ stream = <<>> /\ ops = 0 /\ last.op = "none"

\* what C13 says the deck is after the first n letters of the phrase
RECURSIVE KeyedAsClaimed(_, _)
KeyedAsClaimed(phrase, n) ==
    IF n = 0 THEN [i \in 1..54 |-> i]
    ELSE LET d0 == KeyedAsClaimed(phrase, n - 1)
             ch == Letters(phrase)[n] - 64
         IN  IF Len(d0) # 54 THEN d0
             ELSE count_cut(count_cut(triple_cut(push(push(d0, 53, 1), 54, 2),
                                                 53, 54), None), ch)

\* C13: from_passphrase starts from the sorted deck and applies, for each
\* ASCII letter of the phrase in order (case folded, other characters
\* skipped, value 1..26): push Joker A by 1, push Joker B by 2, triple-cut on
\* the jokers, count-cut by the bottom card, count-cut by the letter; no tap,
\* no repetition
C13_PassphraseRoutine ==
    (JustConstructed /\ origin = "passphrase") =>
        /\ deck = KeyedAsClaimed(key, Len(Letters(key)))
        /\ \A i \in 1..Len(Letters(key)) : Letters(key)[i] - 64 \in 1..26

\* the deck keyed from "ale": before the count-cut by its third letter the
\* tap reads a joker, and the routine was not repeated
C13_Witness ==
    /\ JustConstructed /\ origin = "passphrase" /\ key = KeyAle
    /\ LET d0 == KeyedAsClaimed(key, 2)
           d4 == count_cut(triple_cut(push(push(d0, 53, 1), 54, 2), 53, 54), None)
       IN  TapAsClaimed(d4) = None /\ deck = count_cut(d4, 5)

\* the deck keyed from "Foo, 1!" is the deck keyed from "foo"
MixedKeyFolded ==
    /\ JustConstructed /\ origin = "passphrase" /\ key = KeyMixed
    /\ deck = KeyedAsClaimed(KeyFoo, 3) /\ deck # [i \in 1..54 |-> i]

\* C14: from_passphrase of the empty string, and of a string without any
\* ASCII letter, is the sorted deck 1..54 of Deck::new
C14_NoLetterSortedDeck ==
    (JustConstructed /\ origin = "passphrase" /\ Letters(key) = <<>>) =>
        deck = [i \in 1..54 |-> i]

\* the deck of a phrase made of digits, blanks, punctuation and a letter
\* that is not ASCII
C14_Witness ==
    /\ JustConstructed /\ origin = "passphrase"
    /\ key # <<>> /\ Letters(key) = <<>>
    /\ deck[1] = 1 /\ deck[54] = 54

(***************************************************************************)
(* Claims about textbyte and pad, checked under SpecText.                  *)
(***************************************************************************)
\* C19: textbyte yields the ASCII letters of the text in order, each as
\* A = 1 .. Z = 26 whatever its case; every other character (digit, blank,
\* punctuation, not ASCII) yields nothing, so every value is in 1..26
C19_TextbyteLetters ==
    phase \in {"bytes", "padded"} =>
        /\ Len(bytes) = Len(Letters(text))
        /\ \A i \in 1..Len(bytes) :
              bytes[i] = Letters(text)[i] - 64 /\ bytes[i] \in 1..26
        /\ text = TextXyzFed => bytes = <<24, 25, 26, 6, 5, 4>>
        /\ text = TextAbcDef => bytes = <<1, 2, 3, 4, 5, 6>>

\* textbyte has run on a text of a lower-case letter, an upper-case letter
\* and a character that is not ASCII
C19_Witness ==
    /\ phase = "bytes"
    /\ \E i, j, k \in 1..Len(text) :
          text[i] = 97 /\ text[j] = 90 /\ text[k] = 233
    /\ Len(bytes) = 2

\* C20: pad(24, 5) yields the stream followed by the fewest 24s that make
\* the length a multiple of 5: length L becomes 5 * ceil(L / 5), a length
\* that is a multiple of 5 gets no padding, the empty stream stays empty
C20_PadToGroups ==
    phase = "padded" =>
        LET L == Len(bytes)
        IN  /\ Len(pstream) = 5 * ((L + 4) \div 5)
            /\ Len(pstream) - L \in 0..4
            /\ SubSeq(pstream, 1, L) = bytes
            /\ \A i \in (L + 1)..Len(pstream) : pstream[i] = 24
            /\ L % 5 = 0 => pstream = bytes
            /\ L = 0 => pstream = <<>>

\* pad has run on a stream of five values and added nothing
C20_Witness ==
    phase = "padded" /\ Len(bytes) = 5 /\ pstream = bytes

\* pad has run on a stream of six values and added four
PaddedSix ==
    phase = "padded" /\ Len(bytes) = 6 /\ Len(pstream) = 10 /\ pstream[10] = 24


(***************************************************************************)
(* Claims about the letters and the format of encrypt's and decrypt's      *)
(* output, checked under SpecCrypt.                                        *)
(***************************************************************************)
\* the values 1..26 of the letters of m, padded with X (24) to a multiple of
\* five
PaddedValues(m) ==
    LET ls    == Letters(m)
        total == 5 * ((Len(ls) + 4) \div 5)
    IN  [i \in 1..total |-> IF i <= Len(ls) THEN ls[i] - 64 ELSE 24]

\* a text without its spaces
Unspaced(s) == SelectSeq(s, LAMBDA c : c # 32)

\* out holds, for each padded value p of m and raw keystream value k of d, the
\* letter of value ((p + k - 1) mod 26) + 1, and no sum p + k exceeds 78
EncryptedAsClaimed(d, m, out) ==
    LET p == PaddedValues(m)
        k == keystream_take(d, Len(p))
        o == Unspaced(out)
    IN  /\ Len(k) = Len(p) /\ Len(o) = Len(p)
        /\ \A i \in 1..Len(p) :
              /\ p[i] \in 1..26 /\ k[i] \in 1..52
              /\ p[i] + k[i] <= 78
              /\ o[i] - 64 = ((p[i] + k[i] - 1) % 26) + 1

\* C21, as far as the code defines a result: when encrypt reads its iterator
\* intact, its i-th letter has value ((p_i + k_i - 1) mod 26) + 1 and the sum
\* p_i + k_i stays within 78
EncryptLettersWhenIntact ==
    phase = "encrypted" => EncryptedAsClaimed(deck, text, cipher)

\* C21: the i-th letter of encrypt's output has value ((p_i + k_i - 1) mod 26)
\* + 1 for the i-th padded plaintext value p_i in 1..26 and the i-th raw
\* keystream value k_i in 1..52, and the 8-bit sum p_i + k_i never exceeds 78
C21_EncryptLetters ==
    phase \in {"encrypted", "encrypt undefined"} =>
        phase = "encrypted" /\ EncryptedAsClaimed(deck, text, cipher)

\* out holds, for each padded value c of m and raw keystream value k of d, the
\* letter of value ((c - k - 1) mod 26) + 1, and every intermediate
\* c + 78 - k lies in 27..103
DecryptedAsClaimed(d, m, out) ==
    LET c == PaddedValues(m)
        k == keystream_take(d, Len(c))
        o == Unspaced(out)
    IN  /\ Len(k) = Len(c) /\ Len(o) = Len(c)
        /\ \A i \in 1..Len(c) :
              /\ c[i] \in 1..26 /\ k[i] \in 1..52
              /\ c[i] + 78 - k[i] \in 27..103
              /\ o[i] - 64 = ((c[i] - k[i] - 1) % 26) + 1

\* C22, as far as the code defines a result: when decrypt reads its iterator
\* intact, its i-th letter has value ((c_i - k_i - 1) mod 26) + 1 and the
\* intermediate c_i + 78 - k_i stays in 27..103
DecryptLettersWhenIntact ==
    /\ phase = "decrypted" => DecryptedAsClaimed(deck, text, plain)
    /\ phase = "roundtrip" => DecryptedAsClaimed(deck, cipher, plain)

\* C22: the i-th letter of decrypt's output has value ((c_i - k_i - 1) mod 26)
\* + 1 as a non-negative residue for every c_i in 1..26 and raw keystream
\* value k_i in 1..52, and the 8-bit intermediate c_i + 78 - k_i lies in
\* 27..103, so restore never receives 0
C22_DecryptLetters ==
    /\ phase \in {"decrypted", "decrypt undefined"} =>
           phase = "decrypted" /\ DecryptedAsClaimed(deck, text, plain)
    /\ phase \in {"roundtrip", "roundtrip undefined"} =>
           phase = "roundtrip" /\ DecryptedAsClaimed(deck, cipher, plain)

\* out is 5 * ceil(L / 5) letters A..Z for the L letters of m, with a single
\* space after every fifth letter but the last, and empty when L = 0
FormatAsClaimed(m, out) ==
    LET L      == Len(Letters(m))
        groups == (L + 4) \div 5
    IN  IF L = 0 THEN out = <<>>
        ELSE /\ Len(out) = 6 * groups - 1
             /\ Len(Unspaced(out)) = 5 * groups
             /\ \A j \in 1..Len(out) :
                   IF j % 6 = 0 THEN out[j] = 32 ELSE out[j] \in 65..90

\* C23, as far as the code defines a result: what encrypt and decrypt return
\* when they read their iterator intact has the format of the claim
FormatWhenIntact ==
    /\ phase = "encrypted" => FormatAsClaimed(text, cipher)
    /\ phase = "decrypted" => FormatAsClaimed(text, plain)
    /\ phase = "roundtrip" => FormatAsClaimed(cipher, plain)

\* C23: the output of encrypt and decrypt for an input with L >= 1 letters is
\* exactly 5 * ceil(L / 5) uppercase letters with one space after every fifth
\* letter except the last and no leading or trailing separator; for an input
\* without letters it is the empty string
C23_OutputFormat ==
    /\ phase \in {"encrypted", "encrypt undefined"} =>
           phase = "encrypted" /\ FormatAsClaimed(text, cipher)
    /\ phase \in {"decrypted", "decrypt undefined"} =>
           phase = "decrypted" /\ FormatAsClaimed(text, plain)
    /\ phase \in {"roundtrip", "roundtrip undefined"} =>
           phase = "roundtrip" /\ FormatAsClaimed(cipher, plain)

(***************************************************************************)
(* Cards as the parser sees them (src/src/card.rs).  A Card is a record    *)
(* of its suit (the enum's discriminant 0..4) and its rank; a token is a   *)
(* sequence of character codes; a Result is a record with the field ok.    *)
(***************************************************************************)
\* the variants of Rank
Number(n) == [kind |-> "Number", n |-> n]
Jack  == [kind |-> "Jack", n |-> 0]
Queen == [kind |-> "Queen", n |-> 0]
King  == [kind |-> "King", n |-> 0]

\* Card::new
Card(suit, rank) == [suit |-> suit, rank |-> rank]

Ok(card) == [ok |-> TRUE, card |-> card]
Err(e) == [ok |-> FALSE, err |-> e]

\* Suit::try_from(u8): the discriminant of the suit, or None for the error
\* ValueOutOfRange
suit_try_from(value) ==
    IF value = 0 \/ value > DECK_SIZE THEN None
    ELSE (value - 1) \div SUIT_SIZE

\* Rank::value
rank_value(rank) ==
    CASE rank.kind = "Number" -> rank.n
      [] rank.kind = "Jack"   -> 11
      [] rank.kind = "Queen"  -> 12
      [] rank.kind = "King"   -> 13

\* Err(CardConversionError::ValueOutOfRange) of Rank::try_from
RankOutOfRange == [kind |-> "ValueOutOfRange", n |-> 0]

\* mutant of rank_try_from: the value is not decremented before the remainder
rank_try_from_no_decrement(value) ==
    IF value = 0 \/ value > DECK_SIZE THEN RankOutOfRange
    ELSE LET n == (value % SUIT_SIZE) + 1
         IN  IF n <= 10 THEN Number(n)
             ELSE IF n = 11 THEN Jack
             ELSE IF n = 12 THEN Queen
             ELSE King

\* Rank::try_from(u8)
rank_try_from(value) ==
    IF value = 0 \/ value > DECK_SIZE THEN RankOutOfRange
    ELSE LET n == ((value - 1) % SUIT_SIZE) + 1
         IN  IF n <= 10 THEN Number(n)
             ELSE IF n = 11 THEN Jack
             ELSE IF n = 12 THEN Queen
             ELSE King

\* Card::try_from(u8)
card_try_from(value) ==
    IF suit_try_from(value) = None THEN Err("ValueOutOfRange")
    ELSE IF rank_try_from(value) = RankOutOfRange THEN Err("ValueOutOfRange")
    ELSE Ok(Card(suit_try_from(value), rank_try_from(value)))

\* u8::from(Card)
card_to_u8(card) == U8(CardToU8(card.suit, rank_value(card.rank)))

\* Suit::from_str on one character, or None for the error UnknownSuit
suit_from_str(c) ==
    CASE c \in {67, 99, 9827, 9831}  -> 0
      [] c \in {68, 100, 9830, 9826} -> 1
      [] c \in {72, 104, 9829, 9825} -> 2
      [] c \in {83, 115, 9824, 9828} -> 3
      [] c \in {74, 106}             -> SuitJoker
      [] OTHER                        -> None

\* the number a string of decimal digits denotes
RECURSIVE digits_value(_)
digits_value(s) ==
    IF s = <<>> THEN 0
    ELSE 10 * digits_value(SubSeq(s, 1, Len(s) - 1)) + (s[Len(s)] - 48)

\* u8::from_str: an optional '+', then one decimal digit or more, denoting at
\* most 255; None for a ParseIntError
parse_u8(s) ==
    LET ds == IF s # <<>> /\ s[1] = 43 THEN Tail(s) ELSE s
    IN  IF ds = <<>> \/ \E i \in 1..Len(ds) : ds[i] \notin 48..57 THEN None
        ELSE IF digits_value(ds) > 255 THEN None
        ELSE digits_value(ds)

\* Card::from_str: the suit from the last character, the rank from the rest
card_from_str(s) ==
    IF s = <<>> THEN Err("WrongLength")
    ELSE LET suit   == suit_from_str(s[Len(s)])
             rank_s == SubSeq(s, 1, Len(s) - 1)
         IN  IF suit = None THEN Err("UnknownSuit")
             ELSE IF suit = SuitJoker
                  THEN IF rank_s \in {<<65>>, <<97>>} THEN Ok(Card(SuitJoker, Number(1)))
                       ELSE IF rank_s \in {<<66>>, <<98>>} THEN Ok(Card(SuitJoker, Number(2)))
                       ELSE Err("UnknownJoker")
             ELSE IF rank_s \in {<<49, 49>>, <<74>>, <<106>>} THEN Ok(Card(suit, Jack))
             ELSE IF rank_s \in {<<49, 50>>, <<81>>, <<113>>} THEN Ok(Card(suit, Queen))
             ELSE IF rank_s \in {<<49, 51>>, <<75>>, <<107>>} THEN Ok(Card(suit, King))
             ELSE IF rank_s \in {<<65>>, <<97>>} THEN Ok(Card(suit, Number(1)))
             ELSE IF parse_u8(rank_s) = None THEN Err("CouldNotParseRank")
             ELSE Ok(Card(suit, Number(parse_u8(rank_s))))

\* MaybeDeck::from_iter: at most DECK_SIZE + 1 of the values are collected
from_iter(cards) == SubSeq(cards, 1, Min({Len(cards), DECK_SIZE + 1}))

(***************************************************************************)
(* Parsing and conversion calls, each applied to one argument:             *)
(* MaybeDeck::from_iter(..).check(), Card::from_str(..) followed by        *)
(* u8::from as MaybeDeck::from_str does, and Card::try_from(..) followed   *)
(* by u8::from as test_reversing does.                                     *)
(***************************************************************************)
\* d with `val` at index pos, or d itself when val is None
Altered(d, pos, val) == IF val = None THEN d ELSE [d EXCEPT ![pos + 1] = val]

\* the first n values of d repeated
Cycled(d, n) == [i \in 1..n |-> d[((i - 1) % Len(d)) + 1]]

\* how many values an input holds
CardCounts == {0, 1, DECK_SIZE - 1, DECK_SIZE} \cup ((DECK_SIZE + 1)..MaxCards)

\* inputs of from_iter: a sorted or a shuffled deck, as it is or with one or
\* two values replaced, cut short or continued
CardLists ==
    {Cycled(Altered(Altered(b, p, v), DECK_SIZE - 1, w), n) :
        b \in {NewDeck, MulCards(2), MulCards(3)},
        p \in {0, DECK_SIZE \div 2},
        v \in {None, 0, 1, DECK_SIZE \div 2 + 1, DECK_SIZE + 1, 255},
        w \in {None, 0, 1, DECK_SIZE + 1},
        n \in CardCounts}

\* characters of a rank: digits, letters of ranks in both cases, '+', 'x'
RankChars == {48, 49, 51, 52, 57, 65, 97, 66, 74, 107, 81, 43, 120}

\* characters of a suit: 'C', 'd', a black heart, a white spade, 'J', 'X'
SuitChars == {67, 100, 9829, 9828, 74, 88}

\* tokens: every rank of up to MaxRankLen characters with every suit, the
\* ranks 2, 10, 12 and 256 of clubs, and the empty token
Tokens ==
    {r \o <<c>> : r \in UNION {[1..n -> RankChars] : n \in 0..MaxRankLen},
                  c \in SuitChars}
    \cup {<<50, 67>>, <<49, 48, 67>>, <<49, 50, 67>>, <<50, 53, 54, 67>>, <<>>}

InitParse ==
    /\ origin = "new" /\ key = <<>> /\ deck = NewDeck
    /\ pc = "idle" /\ output = None /\ stream = <<>> /\ taps = 0
    /\ prev = deck /\ last = NoOp /\ ops = 0
    /\ text = <<>> /\ cipher = <<>> /\ plain = <<>>
    /\ bytes = <<>> /\ pstream = <<>>
    /\ result = <<>>
    /\ \/ phase = "cards" /\ arg \in CardLists
       \/ phase = "token" /\ arg \in Tokens
       \/ phase = "value" /\ arg \in 0..255

\* MaybeDeck::from_iter(arg).check()
CheckCards ==
    /\ phase = "cards"
    /\ result' = check(from_iter(arg))
    /\ phase' = "checked"
    /\ UNCHANGED <<deck, origin, key, pc, output, stream, taps, prev, last, ops,
                   text, cipher, plain, bytes, pstream, arg>>

\* Card::from_str(arg), and u8::from of the card it gives
ParseCard ==
    /\ phase = "token"
    /\ LET r == card_from_str(arg)
       IN  result' = IF r.ok
                     THEN [ok |-> TRUE, card |-> r.card, value |-> card_to_u8(r.card)]
                     ELSE r
    /\ phase' = "parsed"
    /\ UNCHANGED <<deck, origin, key, pc, output, stream, taps, prev, last, ops,
                   text, cipher, plain, bytes, pstream, arg>>

\* Card::try_from(arg), and u8::from of the card it gives
ConvertValue ==
    /\ phase = "value"
    /\ LET r == card_try_from(arg)
       IN  result' = IF r.ok
                     THEN [ok |-> TRUE, card |-> r.card, value |-> card_to_u8(r.card)]
                     ELSE r
    /\ phase' = "converted"
    /\ UNCHANGED <<deck, origin, key, pc, output, stream, taps, prev, last, ops,
                   text, cipher, plain, bytes, pstream, arg>>

ParseNext == CheckCards \/ ParseCard \/ ConvertValue

SpecParse == InitParse /\ [][ParseNext]_vars

(***************************************************************************)
(* Claims about parsing and conversion, checked under SpecParse.           *)
(***************************************************************************)
\* what the claim says check returns for the collected values
CheckedAsClaimed(cards, r) ==
    IF Len(cards) = 54 /\ {cards[i] : i \in 1..Len(cards)} = 1..54
    THEN r.ok /\ r.deck = cards
    ELSE /\ ~r.ok
         /\ r.err = IF Len(cards) # 54 THEN "WrongNumber"
                    ELSE IF \E i, j \in 1..54 : i < j /\ cards[i] = cards[j]
                         THEN "NotUnique"
                    ELSE "OutOfBounds"

\* C24: MaybeDeck::check returns Ok with the cards in the given order exactly
\* when the collected values are a permutation of 1..54; otherwise WrongNumber
\* when the count is not 54 (any input of 55 or more cards included), else
\* NotUnique when a value repeats, else OutOfBounds
C24_CheckVerdicts ==
    phase = "checked" =>
        /\ CheckedAsClaimed(from_iter(arg), result)
        /\ Len(arg) >= 55 => ~result.ok /\ result.err = "WrongNumber"
        /\ result.ok => result.deck = arg

\* 54 distinct values that are not 1..54 were rejected as OutOfBounds
C24_Witness ==
    /\ phase = "checked" /\ Len(arg) = 54
    /\ ~result.ok /\ result.err = "OutOfBounds"

\* an input of 56 cards was rejected for its count
C24_LongInput ==
    phase = "checked" /\ Len(arg) = 56 /\ ~result.ok /\ result.err = "WrongNumber"

\* a shuffled deck was accepted in its order
C24_Accepted ==
    phase = "checked" /\ result.ok /\ arg # NewDeck

\* a repeated value was rejected as NotUnique
C24_Repeated ==
    phase = "checked" /\ Len(arg) = 54 /\ ~result.ok /\ result.err = "NotUnique"

\* the rank portion of a token and its last character
RankOf(s) == SubSeq(s, 1, Len(s) - 1)
SuitOf(s) == s[Len(s)]

\* the suits but the joker's, as the parser reads them
PlainSuitChars ==
    {67, 99, 9827, 9831, 68, 100, 9830, 9826, 72, 104, 9829, 9825,
     83, 115, 9824, 9828}

\* A, J, Q, K in either case
RankLetters == {<<65>>, <<97>>, <<74>>, <<106>>, <<81>>, <<113>>, <<75>>, <<107>>}

\* r is a string of decimal digits denoting a number in 1..13
IsRankNumber(r) ==
    /\ r # <<>>
    /\ \A i \in 1..Len(r) : r[i] \in 48..57
    /\ digits_value(r) \in 1..13

\* C25: parsing a token with a non-joker suit fails with the rank-parse error
\* whenever its rank portion is neither a recognized letter (A, J, Q, K) nor an
\* integer in 1..13, so no token outside the 54 cards has a card's value
C25_RankRange ==
    phase = "parsed" /\ arg # <<>> /\ SuitOf(arg) \in PlainSuitChars
      /\ RankOf(arg) \notin RankLetters /\ ~IsRankNumber(RankOf(arg)) =>
        ~result.ok /\ result.err = "CouldNotParseRank"

\* C25, as far as the code does it: a rank portion that is no number at all
\* fails with the rank-parse error, and a number in 1..13 or a rank letter
\* gives the card of that rank in the token's suit
RankParsedWhereChecked ==
    phase = "parsed" /\ arg # <<>> /\ SuitOf(arg) \in PlainSuitChars =>
        /\ parse_u8(RankOf(arg)) = None /\ RankOf(arg) \notin RankLetters =>
               ~result.ok /\ result.err = "CouldNotParseRank"
        /\ IsRankNumber(RankOf(arg)) =>
               /\ result.ok
               /\ result.value = suit_from_str(SuitOf(arg)) * 13
                                     + digits_value(RankOf(arg))

\* "14C" was parsed
C25_Fourteen == phase = "parsed" /\ arg = <<49, 52, 67>>

\* C26: converting v to a Card and back returns v for every v in 1..54, with
\* suit index (v - 1) div 13 and rank ((v - 1) mod 13) + 1, Joker A being 53
\* and Joker B 54; converting 0 or a value above 54 fails with the
\* value-out-of-range error
C26_ValueRoundTrip ==
    phase = "converted" =>
        IF arg \in 1..54
        THEN /\ result.ok
             /\ result.value = arg
             /\ result.card.suit = (arg - 1) \div 13
             /\ rank_value(result.card.rank) = ((arg - 1) % 13) + 1
             /\ arg = 53 => result.card = Card(SuitJoker, Number(1))
             /\ arg = 54 => result.card = Card(SuitJoker, Number(2))
        ELSE ~result.ok /\ result.err = "ValueOutOfRange"

\* the King of Spades, 52, went to a Card and back
C26_Witness ==
    /\ phase = "converted" /\ arg = 52
    /\ result.ok /\ result.card = Card(3, King) /\ result.value = 52

\* 55 was refused
C26_Refused == phase = "converted" /\ arg = 55 /\ ~result.ok

(***************************************************************************)
(* Claims about what the keystream exposes and about the decks it is       *)
(* given, checked under Spec.                                              *)
(***************************************************************************)
\* C27: every value the keystream exposes is a letter value in 1..26, a
\* character in the range 'A'..='Z'
C27_KeystreamLetters ==
    /\ \A i \in 1..Len(stream) : stream[i] \in 1..26
    /\ pc = "idle" /\ output # None => output \in 1..26

\* C27, as far as the code does it: reduced as restore reduces a sum, every
\* value the keystream returns names a letter
RawValuesReduceToLetters ==
    \A i \in 1..Len(stream) :
        /\ stream[i] \in 1..52
        /\ ((stream[i] - 1) % 26) + 1 \in 1..26

(***************************************************************************)
(* Deck::shuffle (src/src/deck.rs), with the slice shuffle of the rand     *)
(* crate: for i from the last index down to 1, swap(i, j) with j drawn     *)
(* from 0..=i.                                                             *)
(***************************************************************************)
\* the draws of a random number generator: for each index i its j in 0..=i
Rngs == {[i \in 1..(DECK_SIZE - 1) |-> (i * m) % (i + 1)] : m \in 0..MaxSeed}

\* slice::swap, by the code's indices
Swap(d, i, j) == [d EXCEPT ![i + 1] = d[j + 1], ![j + 1] = d[i + 1]]

\* mutant of shuffle: the card drawn is copied to index i and not swapped
RECURSIVE shuffle_copy(_, _, _)
shuffle_copy(d, rng, i) ==
    IF i = 0 THEN d
    ELSE LET d1 == [d EXCEPT ![i + 1] = d[rng[i] + 1]]
         IN  IF Len(d1) # DECK_SIZE THEN d1 ELSE shuffle_copy(d1, rng, i - 1)

\* self.0.shuffle(&mut rng), from index i down
RECURSIVE shuffle(_, _, _)
shuffle(d, rng, i) ==
    IF i = 0 THEN d
    ELSE LET d1 == Swap(d, i, rng[i])
         IN  IF Len(d1) # DECK_SIZE THEN d1 ELSE shuffle(d1, rng, i - 1)

\* deck.shuffle()
DoShuffle ==
    \E rng \in Rngs :
        /\ Applied(shuffle(deck, rng, DECK_SIZE - 1),
                   [op |-> "shuffle", a |-> rng[DECK_SIZE - 1], b |-> 0])
        /\ UNCHANGED stream

\* decks are constructed, shuffled and handed to a keystream
BuildNext == DoShuffle \/ DoNext

SpecBuild == Init /\ [][BuildNext]_vars

(***************************************************************************)
(* Claims about the construction of decks, checked under SpecBuild.        *)
(***************************************************************************)
\* C28: every way of constructing a Deck yields a valid permutation of 1..54:
\* Deck::new (sorted), Deck::from_passphrase for any phrase, shuffle applied
\* any number of times, and MaybeDeck::check whenever it returns Ok; no
\* construction hands an ill-formed deck to the keystream
C28_ConstructionsValid ==
    /\ last.op \in {"none", "shuffle"} =>
           /\ Len(deck) = 54
           /\ \A v \in 1..54 : \E i \in 1..54 : deck[i] = v
    /\ last.op = "none" /\ origin = "new" => \A i \in 1..54 : deck[i] = i
    /\ last.op = "next" =>
           /\ Len(prev) = 54
           /\ \A v \in 1..54 : \E i \in 1..54 : prev[i] = v

\* a deck keyed from a passphrase was shuffled twice, to a new order each
\* time
C28_Witness ==
    /\ origin = "passphrase" /\ key # <<>>
    /\ ops = 2 /\ last.op = "shuffle" /\ deck # prev /\ deck # from_passphrase(key)

\* a parsed deck was shuffled and handed to the keystream
C28_ShuffledToKeystream ==
    origin = "parsed" /\ ops = 2 /\ last.op = "next" /\ prev # deck

(***************************************************************************)
(* Further claims about the Deck operations, checked under SpecDeck.       *)
(***************************************************************************)
\* C29: the order of triple_cut's two card arguments is irrelevant: for every
\* valid deck and distinct cards a and b, triple_cut(a, b) and triple_cut(b, a)
\* produce the same deck
C29_TripleCutOrder ==
    /\ last.op = "triple_cut" /\ pc # "panic" =>
            deck = triple_cut(prev, last.b, last.a)
    /\ (pc = "idle" /\ ops < MaxOps) =>
            \A a, b \in {JOKER_A, JOKER_B, 1, deck[1], deck[54]} :
                a # b => triple_cut(deck, a, b) = triple_cut(deck, b, a)
    /\ ops = 0 =>
            \A a \in 1..DECK_SIZE, b \in 1..DECK_SIZE :
                a # b => triple_cut(deck, a, b) = triple_cut(deck, b, a)

\* a triple cut whose first card lay below its second has moved cards, as the
\* cut with the cards exchanged does
C29_Witness ==
    /\ last.op = "triple_cut" /\ deck # prev
    /\ IndexOf(prev, last.a) > IndexOf(prev, last.b)
    /\ deck = triple_cut(prev, last.b, last.a)

(***************************************************************************)
(* Claims about the failing paths of the deck code, checked under Spec.    *)
(***************************************************************************)
\* the index count_cut(None) takes from the bottom card of d
BottomIndex(d) == IF d[54] \in {53, 54} THEN 53 ELSE d[54]

\* the index output taps on d
TapIndex(d) == IF d[1] = 54 THEN 53 ELSE d[1]

\* where card lies in d, by the code's index, or None
Place(d, card) ==
    IF \E i \in 1..Len(d) : d[i] = card
    THEN (CHOOSE i \in 1..Len(d) : d[i] = card) - 1
    ELSE None

\* the next repetition of the routine on d meets no failing path: each call
\* finds its joker, the centre range of the triple cut keeps its size, the
\* count cut's index and the tap index are at most 53
RoutineIsSafe(d) ==
    /\ Place(d, 53) # None /\ Place(d, 54) # None
    /\ LET d1 == push(d, 53, 1)
       IN  /\ d1 # Panic /\ Len(d1) = 54
           /\ LET d2 == push(d1, 54, 2)
              IN  /\ d2 # Panic /\ Len(d2) = 54
                  /\ LET a  == Place(d2, 53)
                         b  == Place(d2, 54)
                         lo == IF a > b THEN b ELSE a
                         hi == IF a > b THEN a ELSE b
                         d3 == triple_cut(d2, 53, 54)
                     IN  /\ a # None /\ b # None
                         /\ hi - lo = (54 - lo - 1) - (54 - hi - 1)
                         /\ d3 # Panic /\ Len(d3) = 54
                         /\ BottomIndex(d3) <= 53
                         /\ 54 - BottomIndex(d3) - 1 >= 0
                         /\ LET d4 == count_cut(d3, None)
                            IN  /\ d4 # Panic /\ Len(d4) = 54
                                /\ TapIndex(d4) <= 53

\* C30: in every state reachable from Deck::new or Deck::from_passphrase by
\* any number of Keystream next calls no failing path of the deck code is
\* reached: find locates both jokers, the count-cut index from the bottom card
\* and the passphrase override are at most 53, the tap index is at most 53,
\* every slice copy has matching lengths and the centre range of triple_cut
\* keeps its size
C30_NoFailingPath ==
    /\ pc # "panic"
    /\ deck # Panic
    /\ Len(deck) = 54
    /\ \A i \in 1..Len(textbyte(key)) : textbyte(key)[i] <= 53
    /\ RoutineIsSafe(deck)

\* the keystream of a passphrase deck has returned values, the last one after
\* a tap on a joker made the loop body repeat
C30_Witness ==
    /\ origin = "passphrase" /\ key # <<>>
    /\ pc = "idle" /\ Len(stream) >= 2 /\ taps >= 2

(***************************************************************************)
(* A further claim about Deck::push, checked under SpecDeck.                *)
(***************************************************************************)
\* after pushing card by n the card is not on top, and a wrapped move went to
\* (i + n) mod 53, no further down than the old index i
NotOnTopAsClaimed(before, after, card, n) ==
    LET i == IndexOf(before, card)
    IN  /\ Len(after) = 54
        /\ after[1] # card
        /\ IndexOf(after, card) >= 1
        /\ i + n >= 54 =>
               /\ (i + n) % 53 <= i
               /\ (i + n) % 53 >= 1
               /\ IndexOf(after, card) = (i + n) % 53

\* C31: after push(c, n) with n in {1, 2} on any valid deck the pushed card is
\* never at the top of the deck (its index is at least 1), whether or not the
\* move wrapped, and the wrap destination (i + n) mod 53 is never greater than
\* the card's old index i
C31_PushedNeverOnTop ==
    /\ (last.op = "push" /\ last.b \in {1, 2} /\ pc # "panic") =>
            NotOnTopAsClaimed(prev, deck, last.a, last.b)
    /\ (pc = "idle" /\ ops < MaxOps) =>
            \A card \in {deck[1], deck[2], deck[53], deck[54], JOKER_A, JOKER_B},
               n \in {1, 2} :
                NotOnTopAsClaimed(deck, push(deck, card, n), card, n)
    /\ ops = 0 =>
            \A card \in 1..DECK_SIZE, n \in {1, 2} :
                NotOnTopAsClaimed(deck, push(deck, card, n), card, n)

\* the bottom card has been pushed by 1, wrapped, and lies second from the top
C31_Witness ==
    /\ last.op = "push" /\ last.b = 1
    /\ prev[54] = last.a
    /\ deck[2] = last.a /\ deck[1] = prev[1]
====
